---- MODULE Spec2Model ----
(***************************************************************************)
(* A model of the Monte Carlo tree search engine of src/src/mcts.rs,       *)
(* driven by the tic-tac-toe game of src/src/bin/tictactoe.rs.             *)
(*                                                                         *)
(* Encodings.  Option<T>: None is <<>>, Some(x) is <<x>>.  A NodeIndex is  *)
(* the 0-based index of the code; the arena `nodes` is a TLA+ sequence, so *)
(* node k is nodes[k + 1].  The f64 fields `wins` and `visits` only ever   *)
(* hold multiples of 0.5 resp. 1.0, far below 2^53, so they are exact:     *)
(* `visits` is modelled by the integer itself and `wins` (and every        *)
(* reward) in HALF units, i.e. the model's wins is 2 * the code's wins.    *)
(***************************************************************************)
EXTENDS Integers, Sequences, FiniteSets, TLC

VARIABLES
    nodes,          \* MCTS.nodes, the arena
    pc,             \* where the program is
    iterations,     \* the argument of get_best_move
    i,              \* how many iterations of its loop have started
    selected_node,  \* locals of get_best_move
    expanded_node,
    result,         \* an Option: None until simulate has returned
    sim,            \* the local `state` of simulate
    best_action,    \* what get_best_move returned, as an Option
    fatal,          \* the panic message, "" while there is none
    call,           \* the last call of a public method made by a client
    expansions      \* how many expand calls have created a node

vars == <<nodes, pc, iterations, i, selected_node, expanded_node, result,
          sim, best_action, fatal, call, expansions>>

(***************************************************************************)
(* Bounds of the model.                                                    *)
(***************************************************************************)
\* Only the first MaxEmpty cells of a board given to get_best_move may be
\* empty.
MaxEmpty == 3
\* The iteration budgets 0..MaxIter are tried besides 2000.
MaxIter == 2
\* A client calling the public methods one by one: only the first
\* MaxEmptyClient cells of its board may be empty, and it makes at most
\* MaxCalls calls that change the arena.
MaxEmptyClient == 2
MaxCalls == 4
\* Where termination is checked, only the first MaxEmptyLive cells of the
\* board may be empty.
MaxEmptyLive == 2

None == <<>>
Some(x) == <<x>>

(***************************************************************************)
(* Tic-tac-toe (src/src/bin/tictactoe.rs).                                 *)
(***************************************************************************)
Cells == 0..8
CellSeq == [k \in 1..9 |-> k - 1]

lines == << <<0, 1, 2>>, <<3, 4, 5>>, <<6, 7, 8>>,
            <<0, 3, 6>>, <<1, 4, 7>>, <<2, 5, 8>>,
            <<0, 4, 8>>, <<2, 4, 6>> >>

\* all cells occupied
BoardFull(board) == \A c \in Cells : board[c] # None

\* line k is owned by one player: board[line[0]] is Some(player) and all
\* three cells equal it
LineWon(board, k) ==
    /\ board[lines[k][1]] # None
    /\ \A j \in 1..3 : board[lines[k][j]] = board[lines[k][1]]

get_legal_moves(s) == SelectSeq(CellSeq, LAMBDA c : s.board[c] = None)

make_move(s, action) ==
    [board  |-> [s.board EXCEPT ![action] = Some(s.player)],
     player |-> IF s.player = "X" THEN "O" ELSE "X"]

\* the first line, in the order of `lines`, that one player owns decides
get_winner(s) ==
    LET won == {k \in 1..Len(lines) : LineWon(s.board, k)} IN
    IF won # {}
    THEN LET first == CHOOSE k \in won : \A m \in won : k <= m IN
         Some(IF s.board[lines[first][1]] = Some("X") THEN 1 ELSE -1)
    ELSE IF BoardFull(s.board) THEN Some(0) ELSE None

is_terminal(s) == get_winner(s) # None \/ BoardFull(s.board)

clone(s) == [board |-> s.board, player |-> s.player]

(***************************************************************************)
(* The arena (src/src/mcts.rs).                                            *)
(***************************************************************************)
root == 0

At(ns, k) == ns[k + 1]

Indices(ns) == 0..(Len(ns) - 1)

new(state) ==
    << [state           |-> clone(state),
        parent          |-> None,
        children        |-> <<>>,
        wins            |-> 0,
        visits          |-> 0,
        untried_actions |-> get_legal_moves(state),
        last_action     |-> None] >>

(***************************************************************************)
(* The UCT score wins/visits + sqrt(2 ln(visits(parent)) / visits) is an   *)
(* f64.  It is NaN exactly when the child's visits are 0 (0.0/0.0) or the  *)
(* parent's visits are 0 (sqrt of -inf); partial_cmp then yields None and  *)
(* the unwrap panics.  Otherwise the score is enclosed between UctLo and   *)
(* UctHi, in units of 1/Scale, and two scores are ordered by the model     *)
(* only when the code's f64 arithmetic certainly orders them that way;     *)
(* where it cannot tell, every ordering is allowed.                        *)
(***************************************************************************)
Scale == 10000

\* LnTable[n] = floor(Scale * ln n), for n = 1..100
LnTable ==
    <<0, 6931, 10986, 13862, 16094, 17917, 19459, 20794, 21972, 23025,
      23978, 24849, 25649, 26390, 27080, 27725, 28332, 28903, 29444, 29957,
      30445, 30910, 31354, 31780, 32188, 32580, 32958, 33322, 33672, 34011,
      34339, 34657, 34965, 35263, 35553, 35835, 36109, 36375, 36635, 36888,
      37135, 37376, 37612, 37841, 38066, 38286, 38501, 38712, 38918, 39120,
      39318, 39512, 39702, 39889, 40073, 40253, 40430, 40604, 40775, 40943,
      41108, 41271, 41431, 41588, 41743, 41896, 42046, 42195, 42341, 42484,
      42626, 42766, 42904, 43040, 43174, 43307, 43438, 43567, 43694, 43820,
      43944, 44067, 44188, 44308, 44426, 44543, 44659, 44773, 44886, 44998,
      45108, 45217, 45325, 45432, 45538, 45643, 45747, 45849, 45951, 46051>>

RECURSIVE IsqrtIn(_, _, _)
IsqrtIn(n, lo, hi) ==
    IF lo >= hi THEN lo
    ELSE LET mid == (lo + hi + 1) \div 2 IN
         IF mid * mid <= n THEN IsqrtIn(n, mid, hi) ELSE IsqrtIn(n, lo, mid - 1)

\* floor of the square root, for 0 <= n < 2^31
Isqrt(n) == IsqrtIn(n, 0, 46340)

\* lower and upper bounds of Scale * uct, for visits v >= 1, parent visits pv >= 1
UctLo(w, v, pv) ==
    (w * Scale) \div (2 * v) + Isqrt((2 * LnTable[pv] * Scale) \div v)

UctHi(w, v, pv) ==
    (w * Scale) \div (2 * v) + 1
    + (IF pv = 1 THEN 0
       ELSE Isqrt((2 * (LnTable[pv] + 1) * Scale) \div v + 1) + 1)

\* the possible results of uct_a.partial_cmp(&uct_b); "NaN" stands for None
UctCmp(ns, p, a, b) ==
    LET pv == At(ns, p).visits
        na == At(ns, a)
        nb == At(ns, b)
    IN  IF pv = 0 \/ na.visits = 0 \/ nb.visits = 0 THEN {"NaN"}
        ELSE IF na.visits = nb.visits
        THEN \* the same exploration term on both sides
             IF na.wins = nb.wins THEN {"Equal"}
             ELSE IF na.wins < nb.wins THEN {"Less"} ELSE {"Greater"}
        ELSE IF pv = 1
        THEN \* ln 1 = 0: the scores are the quotients wins/visits
             IF na.wins * nb.visits = nb.wins * na.visits THEN {"Equal"}
             ELSE IF na.wins * nb.visits < nb.wins * na.visits THEN {"Less"}
             ELSE {"Greater"}
        ELSE IF UctHi(na.wins, na.visits, pv) < UctLo(nb.wins, nb.visits, pv)
        THEN {"Less"}
        ELSE IF UctHi(nb.wins, nb.visits, pv) < UctLo(na.wins, na.visits, pv)
        THEN {"Greater"}
        ELSE {"Less", "Equal", "Greater"}

\* Iterator::max_by is a left fold that keeps the accumulator only when the
\* comparison says Greater, so the last of several maxima wins.  The result
\* is the set of possible outcomes: Some(child), or None for the panic of
\* unwrap on a NaN comparison.
RECURSIVE MaxByUctFrom(_, _, _, _)
MaxByUctFrom(ns, p, acc, rest) ==
    IF rest = <<>> THEN {Some(acc)}
    ELSE UNION { IF o = "NaN" THEN {None}
                 ELSE IF o = "Greater"
                 THEN MaxByUctFrom(ns, p, acc, Tail(rest))
                 ELSE MaxByUctFrom(ns, p, Head(rest), Tail(rest))
                 : o \in UctCmp(ns, p, acc, Head(rest)) }

\* the outcomes of children.iter().max_by(uct) of a node that has children
MaxByUct(ns, p) ==
    LET cs == At(ns, p).children IN
    MaxByUctFrom(ns, p, Head(cs), Tail(cs))

\* Faulty variant of select: no early return at a node with untried actions.
RECURSIVE selectAlwaysDescend(_, _)
selectAlwaysDescend(ns, node_index) ==
    IF At(ns, node_index).children = <<>> THEN {Some(node_index)}
    ELSE UNION { IF m = None THEN {None} ELSE selectAlwaysDescend(ns, m[1])
                 : m \in MaxByUct(ns, node_index) }

\* Faulty variant of select: the best child is returned without descending
\* from it.
selectOneLevel(ns, node_index) ==
    IF At(ns, node_index).untried_actions # <<>> THEN {Some(node_index)}
    ELSE IF At(ns, node_index).children = <<>> THEN {Some(node_index)}
    ELSE MaxByUct(ns, node_index)

\* select: the set of possible outcomes, Some(index) or None (panic)
RECURSIVE select(_, _)
select(ns, node_index) ==
    IF At(ns, node_index).untried_actions # <<>> THEN {Some(node_index)}
    ELSE IF At(ns, node_index).children = <<>> THEN {Some(node_index)}
    ELSE UNION { IF m = None THEN {None} ELSE select(ns, m[1])
                 : m \in MaxByUct(ns, node_index) }

\* Vec::pop: the last element and the rest
PopAction(actions) == actions[Len(actions)]
PopRest(actions) == SubSeq(actions, 1, Len(actions) - 1)

\* Faulty variant of expand: the action is removed and the new index
\* returned, but no node is pushed.
expandNoPush(ns, node_index) ==
    IF At(ns, node_index).untried_actions # <<>>
    THEN { [nodes |-> [ns EXCEPT ![node_index + 1].untried_actions =
                                     PopRest(@)],
            ret   |-> Some(Len(ns))] }
    ELSE IF At(ns, node_index).children = <<>>
    THEN { [nodes |-> ns, ret |-> Some(node_index)] }
    ELSE { [nodes |-> ns, ret |-> m] : m \in MaxByUct(ns, node_index) }

\* Faulty variant of expand: a childless node without untried actions yields
\* the root instead of itself.
expandLeafRoot(ns, node_index) ==
    IF At(ns, node_index).untried_actions # <<>>
    THEN LET action == PopAction(At(ns, node_index).untried_actions)
             state == make_move(clone(At(ns, node_index).state), action)
             pushed == Append([ns EXCEPT ![node_index + 1].untried_actions =
                                           PopRest(@)],
                          [state           |-> state,
                           parent          |-> Some(node_index),
                           children        |-> <<>>,
                           wins            |-> 0,
                           visits          |-> 0,
                           untried_actions |-> get_legal_moves(state),
                           last_action     |-> Some(action)])
         IN  { [nodes |-> [pushed EXCEPT ![node_index + 1].children =
                                             Append(@, Len(ns))],
                ret   |-> Some(Len(ns))] }
    ELSE IF At(ns, node_index).children = <<>>
    THEN { [nodes |-> ns, ret |-> Some(root)] }
    ELSE { [nodes |-> ns, ret |-> m] : m \in MaxByUct(ns, node_index) }

\* Faulty variant of expand: the action is read but not removed from
\* untried_actions.
expandNoPop(ns, node_index) ==
    IF At(ns, node_index).untried_actions # <<>>
    THEN LET action == PopAction(At(ns, node_index).untried_actions)
             state == make_move(clone(At(ns, node_index).state), action)
             pushed == Append(ns,
                          [state           |-> state,
                           parent          |-> Some(node_index),
                           children        |-> <<>>,
                           wins            |-> 0,
                           visits          |-> 0,
                           untried_actions |-> get_legal_moves(state),
                           last_action     |-> Some(action)])
         IN  { [nodes |-> [pushed EXCEPT ![node_index + 1].children =
                                             Append(@, Len(ns))],
                ret   |-> Some(Len(ns))] }
    ELSE IF At(ns, node_index).children = <<>>
    THEN { [nodes |-> ns, ret |-> Some(node_index)] }
    ELSE { [nodes |-> ns, ret |-> m] : m \in MaxByUct(ns, node_index) }

\* Faulty variant of expand: the first untried action is taken instead of the
\* last.
expandPopFirst(ns, node_index) ==
    IF At(ns, node_index).untried_actions # <<>>
    THEN LET action == Head(At(ns, node_index).untried_actions)
             state == make_move(clone(At(ns, node_index).state), action)
             pushed == Append([ns EXCEPT ![node_index + 1].untried_actions =
                                           Tail(@)],
                          [state           |-> state,
                           parent          |-> Some(node_index),
                           children        |-> <<>>,
                           wins            |-> 0,
                           visits          |-> 0,
                           untried_actions |-> get_legal_moves(state),
                           last_action     |-> Some(action)])
         IN  { [nodes |-> [pushed EXCEPT ![node_index + 1].children =
                                             Append(@, Len(ns))],
                ret   |-> Some(Len(ns))] }
    ELSE IF At(ns, node_index).children = <<>>
    THEN { [nodes |-> ns, ret |-> Some(node_index)] }
    ELSE { [nodes |-> ns, ret |-> m] : m \in MaxByUct(ns, node_index) }

\* Faulty variant of expand: the new node's parent is the root, whichever
\* node was expanded.
expandParentRoot(ns, node_index) ==
    IF At(ns, node_index).untried_actions # <<>>
    THEN LET action == PopAction(At(ns, node_index).untried_actions)
             state == make_move(clone(At(ns, node_index).state), action)
             pushed == Append([ns EXCEPT ![node_index + 1].untried_actions =
                                           PopRest(@)],
                          [state           |-> state,
                           parent          |-> Some(root),
                           children        |-> <<>>,
                           wins            |-> 0,
                           visits          |-> 0,
                           untried_actions |-> get_legal_moves(state),
                           last_action     |-> Some(action)])
         IN  { [nodes |-> [pushed EXCEPT ![node_index + 1].children =
                                             Append(@, Len(ns))],
                ret   |-> Some(Len(ns))] }
    ELSE IF At(ns, node_index).children = <<>>
    THEN { [nodes |-> ns, ret |-> Some(node_index)] }
    ELSE { [nodes |-> ns, ret |-> m] : m \in MaxByUct(ns, node_index) }

\* expand: the set of possible outcomes [nodes, ret], ret = Some(index) or
\* None (panic)
expand(ns, node_index) ==
    IF At(ns, node_index).untried_actions # <<>>
    THEN LET action == PopAction(At(ns, node_index).untried_actions)
             state == make_move(clone(At(ns, node_index).state), action)
             new_node_index == Len(ns)
             popped == [ns EXCEPT ![node_index + 1].untried_actions =
                                      PopRest(@)]
             pushed == Append(popped,
                          [state           |-> state,
                           parent          |-> Some(node_index),
                           children        |-> <<>>,
                           wins            |-> 0,
                           visits          |-> 0,
                           untried_actions |-> get_legal_moves(state),
                           last_action     |-> Some(action)])
         IN  { [nodes |-> [pushed EXCEPT ![node_index + 1].children =
                                             Append(@, new_node_index)],
                ret   |-> Some(new_node_index)] }
    ELSE IF At(ns, node_index).children = <<>>
    THEN { [nodes |-> ns, ret |-> Some(node_index)] }
    ELSE { [nodes |-> ns, ret |-> m] : m \in MaxByUct(ns, node_index) }

\* Faulty variant of Reward: the rewards of the two players are exchanged.
RewardSwapped(winner) ==
    IF winner = Some(0) THEN Some(1)
    ELSE IF winner = Some(1) THEN Some(0)
    ELSE IF winner = Some(-1) THEN Some(2)
    ELSE None

\* the reward of a finished playout in half units, None for the panic
Reward(winner) ==
    IF winner = Some(0) THEN Some(1)
    ELSE IF winner = Some(1) THEN Some(2)
    ELSE IF winner = Some(-1) THEN Some(0)
    ELSE None

\* Faulty variant of Visit: the visit is not counted.
VisitNoCount(node, r) == [node EXCEPT !.wins = @ + r]

\* one node's update in backpropagate
Visit(node, r) == [node EXCEPT !.visits = @ + 1, !.wins = @ + r]

\* Faulty variant of backpropagate: the parent chain is not followed.
backpropagateNoParent(ns, node_index, r) ==
    [ns EXCEPT ![node_index + 1].visits = @ + 1,
               ![node_index + 1].wins = @ + r]

\* Faulty variant of backpropagate: the update starts at the parent, the
\* node itself is skipped.
RECURSIVE backpropagateAbove(_, _, _)
backpropagateAbove(ns, node_index, r) ==
    IF At(ns, node_index).parent = None THEN ns
    ELSE LET p == At(ns, node_index).parent[1] IN
         backpropagateAbove([ns EXCEPT ![p + 1].visits = @ + 1,
                                       ![p + 1].wins = @ + r], p, r)

\* Faulty variant of backpropagate: the reward is flipped (r becomes 1 - r,
\* in half units 2 - r) at every step up the parent chain.
RECURSIVE backpropagateFlipped(_, _, _)
backpropagateFlipped(ns, node_index, r) ==
    LET upd == [ns EXCEPT ![node_index + 1] = Visit(@, r)] IN
    IF At(upd, node_index).parent # None
    THEN backpropagateFlipped(upd, At(upd, node_index).parent[1], 2 - r)
    ELSE upd

\* Faulty variant of backpropagate: the update stops after the node's parent.
backpropagateOneUp(ns, node_index, r) ==
    LET upd == [ns EXCEPT ![node_index + 1] = Visit(@, r)] IN
    IF At(upd, node_index).parent # None
    THEN [upd EXCEPT ![At(upd, node_index).parent[1] + 1] = Visit(@, r)]
    ELSE upd

RECURSIVE backpropagate(_, _, _)
backpropagate(ns, node_index, r) ==
    LET upd == [ns EXCEPT ![node_index + 1] = Visit(@, r)] IN
    IF At(upd, node_index).parent # None
    THEN backpropagate(upd, At(upd, node_index).parent[1], r)
    ELSE upd

\* max_by on visits (never NaN), the last of several maxima wins
RECURSIVE MaxByVisitsFrom(_, _, _)
MaxByVisitsFrom(ns, acc, rest) ==
    IF rest = <<>> THEN acc
    ELSE IF At(ns, acc).visits > At(ns, Head(rest)).visits
    THEN MaxByVisitsFrom(ns, acc, Tail(rest))
    ELSE MaxByVisitsFrom(ns, Head(rest), Tail(rest))

\* Faulty variant of BestAction: the first child instead of the most visited.
BestActionFirst(ns) ==
    LET cs == At(ns, root).children IN
    IF cs = <<>> THEN None ELSE At(ns, Head(cs)).last_action

\* Faulty variant of BestAction: action 0 instead of the panic.
BestActionDefault(ns) ==
    LET cs == At(ns, root).children IN
    IF cs = <<>> THEN Some(0)
    ELSE At(ns, MaxByVisitsFrom(ns, Head(cs), Tail(cs))).last_action

\* the tail of get_best_move: Some(action), or None for the panic
BestAction(ns) ==
    LET cs == At(ns, root).children IN
    IF cs = <<>> THEN None
    ELSE At(ns, MaxByVisitsFrom(ns, Head(cs), Tail(cs))).last_action

(***************************************************************************)
(* The input positions: what legal play from the empty board reaches (the  *)
(* finished games included), X moving first.                               *)
(***************************************************************************)
Count(board, p) == Cardinality({c \in Cells : board[c] = Some(p)})

HasLine(board, p) ==
    \E k \in 1..Len(lines) : LineWon(board, k) /\ board[lines[k][1]] = Some(p)

Playable(board) ==
    /\ Count(board, "X") - Count(board, "O") \in {0, 1}
    /\ ~(HasLine(board, "X") /\ HasLine(board, "O"))
    /\ HasLine(board, "X") => Count(board, "X") = Count(board, "O") + 1
    /\ HasLine(board, "O") => Count(board, "X") = Count(board, "O")

ToMove(board) == IF Count(board, "X") = Count(board, "O") THEN "X" ELSE "O"

InputBoards(max_empty) ==
    { b \in [Cells -> {None, Some("X"), Some("O")}] :
        /\ \A c \in Cells : b[c] = None => c < max_empty
        /\ Playable(b) }

InputStates(max_empty) ==
    { [board |-> b, player |-> ToMove(b)] : b \in InputBoards(max_empty) }

Budgets == (0..MaxIter) \cup {2000}

\* 1 for an expand call made on a node with untried actions, else 0
Successful(ns, node_index) ==
    IF At(ns, node_index).untried_actions # <<>> THEN 1 ELSE 0

NoCall == [op |-> "none", arg |-> 0, ret |-> None]

InitWith(state, budget, at) ==
    /\ nodes = new(state)
    /\ pc = at
    /\ iterations = budget
    /\ i = 0
    /\ selected_node = 0
    /\ expanded_node = 0
    /\ result = None
    /\ sim = clone(state)
    /\ best_action = None
    /\ fatal = ""
    /\ call = NoCall
    /\ expansions = 0

(***************************************************************************)
(* get_best_move(iterations) on a fresh arena.                             *)
(***************************************************************************)
Init == \E s \in InputStates(MaxEmpty), n \in Budgets : InitWith(s, n, "loop")

\* for _ in 0..iterations
Loop ==
    /\ pc = "loop"
    /\ IF i < iterations
       THEN i' = i + 1 /\ pc' = "select"
       ELSE i' = i /\ pc' = "best"
    /\ UNCHANGED <<nodes, iterations, selected_node, expanded_node, result,
                   sim, best_action, fatal, call, expansions>>

\* let selected_node = self.select(self.root)
Select ==
    /\ pc = "select"
    /\ \E o \in select(nodes, root) :
         IF o = None
         THEN /\ pc' = "panic"
              /\ fatal' = "unwrap on None"
              /\ UNCHANGED selected_node
         ELSE /\ pc' = "expand"
              /\ selected_node' = o[1]
              /\ UNCHANGED fatal
    /\ UNCHANGED <<nodes, iterations, i, expanded_node, result, sim,
                   best_action, call, expansions>>

\* let expanded_node = self.expand(selected_node);
\* if expanded_node == selected_node { break; }
Expand ==
    /\ pc = "expand"
    /\ \E o \in expand(nodes, selected_node) :
         IF o.ret = None
         THEN /\ pc' = "panic"
              /\ fatal' = "unwrap on None"
              /\ UNCHANGED <<nodes, expanded_node, expansions>>
         ELSE /\ nodes' = o.nodes
              /\ expanded_node' = o.ret[1]
              /\ expansions' = expansions + Successful(nodes, selected_node)
              /\ pc' = IF o.ret[1] = selected_node THEN "best" ELSE "simulate"
              /\ UNCHANGED fatal
    /\ UNCHANGED <<iterations, i, selected_node, result, sim, best_action,
                   call>>

\* simulate: let mut state = self.nodes[node_index].state.clone()
SimulateAt(here, node_index, there) ==
    /\ pc = here
    /\ sim' = clone(At(nodes, node_index).state)
    /\ pc' = there

\* simulate: what the match on get_winner returns once the playout has
\* reached a terminal state, Some(reward); None while it has not, or when the
\* match panics
PlayoutReturn ==
    IF is_terminal(sim) THEN Reward(get_winner(sim)) ELSE None

\* Faulty variant of PlayoutAt: a move of the playout passes the turn without
\* marking a cell.
PlayoutAtNoMark(here, there) ==
    /\ pc = here
    /\ IF ~is_terminal(sim)
       THEN /\ sim' = [sim EXCEPT !.player = IF @ = "X" THEN "O" ELSE "X"]
            /\ UNCHANGED <<pc, fatal>>
       ELSE /\ IF PlayoutReturn = None
               THEN pc' = "panic" /\ fatal' = "Unexpected winner"
               ELSE pc' = there /\ UNCHANGED fatal
            /\ sim' = clone(At(nodes, root).state)

\* simulate: one turn of the while loop, or the match that ends it; the
\* local `state` is then dropped, which the model shows by resetting sim to
\* a copy of the root's state
PlayoutAt(here, there) ==
    /\ pc = here
    /\ IF ~is_terminal(sim)
       THEN LET legal_moves == get_legal_moves(sim) IN
            /\ \E k \in 1..Len(legal_moves) :
                 sim' = make_move(sim, legal_moves[k])
            /\ UNCHANGED <<pc, fatal>>
       ELSE /\ IF PlayoutReturn = None
               THEN pc' = "panic" /\ fatal' = "Unexpected winner"
               ELSE pc' = there /\ UNCHANGED fatal
            /\ sim' = clone(At(nodes, root).state)

\* let result = self.simulate(expanded_node)
Simulate ==
    /\ SimulateAt("simulate", expanded_node, "playout")
    /\ UNCHANGED <<nodes, iterations, i, selected_node, expanded_node, result,
                   best_action, fatal, call, expansions>>

Playout ==
    /\ PlayoutAt("playout", "backpropagate")
    /\ result' = IF PlayoutReturn = None THEN result ELSE PlayoutReturn
    /\ UNCHANGED <<nodes, iterations, i, selected_node, expanded_node,
                   best_action, call, expansions>>

\* self.backpropagate(expanded_node, result)
Backpropagate ==
    /\ pc = "backpropagate"
    /\ nodes' = backpropagate(nodes, expanded_node, result[1])
    /\ pc' = "loop"
    /\ UNCHANGED <<iterations, i, selected_node, expanded_node, result, sim,
                   best_action, fatal, call, expansions>>

\* the choice of the most visited child of the root
Best ==
    /\ pc = "best"
    /\ IF BestAction(nodes) = None
       THEN /\ pc' = "panic"
            /\ fatal' = "Failed to get best move"
            /\ UNCHANGED best_action
       ELSE /\ pc' = "done"
            /\ best_action' = BestAction(nodes)
            /\ UNCHANGED fatal
    /\ UNCHANGED <<nodes, iterations, i, selected_node, expanded_node, result,
                   sim, call, expansions>>

Next == Loop \/ Select \/ Expand \/ Simulate \/ Playout \/ Backpropagate \/ Best

Spec == Init /\ [][Next]_vars

\* get_best_move runs on its own thread and is never suspended for ever:
\* whenever a step of it is possible, a step is eventually taken
InitLive ==
    \E s \in InputStates(MaxEmptyLive), n \in Budgets : InitWith(s, n, "loop")

SpecLive == InitLive /\ [][Next]_vars /\ WF_vars(Next)

(***************************************************************************)
(* A client that builds an arena with new and then calls the public        *)
(* methods select, expand, simulate and backpropagate in any order on any  *)
(* node.  `call` holds the call that has just returned, until the client   *)
(* is done with it.  The reward the client passes to backpropagate is the  *)
(* one the simulate call it has just made returned; simulate changes       *)
(* nothing in the arena, so this reaches every arena that the rewards of   *)
(* earlier simulate calls reach.                                           *)
(***************************************************************************)
\* the calls made so far that changed the arena: each successful expand adds
\* a node and each backpropagate adds a visit to the root
Changes == expansions + At(nodes, root).visits

InitApi == \E s \in InputStates(MaxEmptyClient) : InitWith(s, 0, "api")

ApiSelect(n) ==
    /\ pc = "api"
    /\ \E o \in select(nodes, n) :
         /\ call' = [op |-> "select", arg |-> n, ret |-> o]
         /\ IF o = None
            THEN pc' = "panic" /\ fatal' = "unwrap on None"
            ELSE pc' = "returned" /\ UNCHANGED fatal
    /\ UNCHANGED <<nodes, iterations, i, selected_node, expanded_node, result,
                   sim, best_action, expansions>>

ApiExpand(n) ==
    /\ pc = "api"
    /\ At(nodes, n).untried_actions # <<>> => Changes < MaxCalls
    /\ \E o \in expand(nodes, n) :
         /\ call' = [op |-> "expand", arg |-> n, ret |-> o.ret]
         /\ IF o.ret = None
            THEN /\ pc' = "panic"
                 /\ fatal' = "unwrap on None"
                 /\ UNCHANGED <<nodes, expansions>>
            ELSE /\ pc' = "returned"
                 /\ nodes' = o.nodes
                 /\ expansions' = expansions + Successful(nodes, n)
                 /\ UNCHANGED fatal
    /\ UNCHANGED <<iterations, i, selected_node, expanded_node, result, sim,
                   best_action>>

ApiSimulate(n) ==
    /\ SimulateAt("api", n, "api_playout")
    /\ call' = [op |-> "simulate", arg |-> n, ret |-> None]
    /\ UNCHANGED <<nodes, iterations, i, selected_node, expanded_node, result,
                   best_action, fatal, expansions>>

ApiPlayout ==
    /\ PlayoutAt("api_playout", "returned")
    /\ call' = [call EXCEPT !.ret = PlayoutReturn]
    /\ UNCHANGED <<nodes, iterations, i, selected_node, expanded_node, result,
                   best_action, expansions>>

\* backpropagate(n, r) with the reward r that simulate has just returned
ApiBackpropagate(n) ==
    /\ pc = "returned"
    /\ call.op = "simulate"
    /\ Changes < MaxCalls
    /\ nodes' = backpropagate(nodes, n, call.ret[1])
    /\ call' = [op |-> "backpropagate", arg |-> n, ret |-> call.ret]
    /\ UNCHANGED <<pc, iterations, i, selected_node, expanded_node, result,
                   sim, best_action, fatal, expansions>>

\* the client is done with what the call returned
ApiReturn ==
    /\ pc = "returned"
    /\ pc' = "api"
    /\ call' = NoCall
    /\ UNCHANGED <<nodes, iterations, i, selected_node, expanded_node, result,
                   sim, best_action, fatal, expansions>>

NextApi ==
    \/ \E n \in Indices(nodes) : ApiSelect(n)
    \/ \E n \in Indices(nodes) : ApiExpand(n)
    \/ \E n \in Indices(nodes) : ApiSimulate(n)
    \/ ApiPlayout
    \/ \E n \in Indices(nodes) : ApiBackpropagate(n)
    \/ ApiReturn

SpecApi == InitApi /\ [][NextApi]_vars

(***************************************************************************)
(* The claims.                                                             *)
(***************************************************************************)

\* C1: in every state of an arena built by new and changed only by expand
\* and by backpropagate with a reward that simulate returned, every node has
\* 0 <= wins <= visits (wins is kept in half units: 0 <= wins <= 2 * visits).
C1_WinsWithinVisits ==
    \A k \in Indices(nodes) :
        /\ 0 <= At(nodes, k).wins
        /\ At(nodes, k).wins <= 2 * At(nodes, k).visits

\* a backpropagate call has just made some node reach wins = visits = 2
C1_Witness ==
    /\ call.op = "backpropagate"
    /\ \E k \in Indices(nodes) :
         At(nodes, k).visits = 2 /\ At(nodes, k).wins = 4

\* C2: whenever get_best_move returns an action, it is the last_action of a
\* child of the root that no other child of the root exceeds in visits, and it
\* is a legal move of the state the arena was built from.
C2_RobustChild ==
    pc = "done" =>
        /\ best_action # None
        /\ \E c \in 1..Len(At(nodes, root).children) :
             LET child == At(nodes, At(nodes, root).children[c]) IN
             /\ child.last_action = best_action
             /\ \A d \in 1..Len(At(nodes, root).children) :
                  child.visits >= At(nodes, At(nodes, root).children[d]).visits
        /\ \E m \in 1..Len(get_legal_moves(At(nodes, root).state)) :
             get_legal_moves(At(nodes, root).state)[m] = best_action[1]

\* get_best_move has returned and the children of the root differ in visits
C2_Witness ==
    /\ pc = "done"
    /\ \E c, d \in 1..Len(At(nodes, root).children) :
         At(nodes, At(nodes, root).children[c]).visits >
             At(nodes, At(nodes, root).children[d]).visits

\* C3: in get_best_move on a fresh arena, after k completed iterations the
\* root's visits are exactly k: at the head of the loop they equal the number
\* of iterations started, and inside the k+1st iteration they still equal k.
C3_RootVisits ==
    /\ pc = "loop" => At(nodes, root).visits = i
    /\ pc \in {"select", "expand", "simulate", "playout", "backpropagate"} =>
         At(nodes, root).visits = i - 1

\* three iterations have completed
C3_Witness ==
    /\ pc = "loop"
    /\ i = 3
    /\ At(nodes, root).visits = 3

\* C4: the arena holds 1 node after new and 1 + n nodes after n successful
\* expand calls, whatever other calls are interleaved; it never shrinks and
\* no existing node moves to another index.  (Initially there is 1 node and
\* no successful expand, and every step ends with 1 + expansions nodes.)
C4_ArenaSize ==
    /\ Len(nodes) = 1 /\ expansions = 0
    /\ [][/\ Len(nodes') = 1 + expansions'
          /\ Len(nodes') >= Len(nodes)
          /\ \A k \in Indices(nodes) :
               /\ At(nodes', k).state = At(nodes, k).state
               /\ At(nodes', k).parent = At(nodes, k).parent
               /\ At(nodes', k).last_action = At(nodes, k).last_action]_vars

\* two successful expand calls, a backpropagate, and then an expand call on a
\* node with nothing to expand
C4_Witness ==
    /\ expansions >= 2
    /\ At(nodes, root).visits >= 1
    /\ call.op = "expand"
    /\ call.ret = Some(call.arg)

\* C5: on a board where the player to move has two marks in a line whose
\* third cell is empty, get_best_move(2000) on a fresh arena returns the index
\* of such a winning cell, whatever the random playouts give.
C5_ReturnsWinningCell ==
    LET s0 == At(nodes, root).state
        winning ==
            { c \in Cells :
                /\ s0.board[c] = None
                /\ \E k \in 1..Len(lines) :
                     /\ \E j \in 1..3 : lines[k][j] = c
                     /\ \A j \in 1..3 :
                          lines[k][j] # c =>
                              s0.board[lines[k][j]] = Some(s0.player) }
    IN  (/\ iterations = 2000
         /\ ~is_terminal(s0)
         /\ winning # {}
         /\ pc \in {"done", "panic"})
        => (pc = "done" /\ best_action # None /\ best_action[1] \in winning)

\* C6: get_best_move on a fresh arena panics with "Failed to get best move"
\* exactly when the root has no children after the loop, which is the case
\* exactly when the input state has no legal moves or iterations = 0; in every
\* other case it returns an action, and it panics in no other way.
C6_NoMoveAvailable ==
    LET no_move == \/ iterations = 0
                   \/ get_legal_moves(At(nodes, root).state) = <<>>
    IN  /\ pc = "panic" =>
            /\ fatal = "Failed to get best move"
            /\ At(nodes, root).children = <<>>
            /\ no_move
        /\ pc = "done" =>
            /\ best_action # None
            /\ At(nodes, root).children # <<>>
            /\ ~no_move
        /\ pc = "best" => (At(nodes, root).children = <<>> <=> no_move)

\* the panic on a full board, with a budget of 2000 iterations
C6_Witness ==
    /\ pc = "panic"
    /\ fatal = "Failed to get best move"
    /\ iterations = 2000
    /\ get_legal_moves(At(nodes, root).state) = <<>>

\* C7: whenever select(n) returns, it returns a node that has untried actions
\* or has no children, and that node is n or is reached from n through child
\* links across nodes without untried actions (the parent chain of the result
\* leads back to n through such nodes only); on a single-node arena select
\* of the root returns the root.
C7_SelectResult ==
    (call.op = "select" /\ call.ret # None) =>
        LET r == call.ret[1]
            \* the nodes from k up to the root
            UpFrom[k \in Indices(nodes)] ==
                IF At(nodes, k).parent = None THEN {k}
                ELSE {k} \cup UpFrom[At(nodes, k).parent[1]]
            \* the strict ancestors of r that are n or below n
            between == { k \in UpFrom[r] \ {r} : call.arg \in UpFrom[k] }
        IN  /\ r \in Indices(nodes)
            /\ \/ At(nodes, r).untried_actions # <<>>
               \/ At(nodes, r).children = <<>>
            /\ call.arg \in UpFrom[r]
            /\ \A k \in between : At(nodes, k).untried_actions = <<>>
            /\ Len(nodes) = 1 => r = root

\* select has descended from a node with two or more children to a node below
C7_Witness ==
    /\ call.op = "select"
    /\ call.ret # None
    /\ call.ret # Some(call.arg)
    /\ Len(At(nodes, call.arg).children) >= 2

\* C8: expand called on a node whose untried_actions and children are both
\* empty returns that node's index and leaves the whole arena unchanged.
C8_ExpandLeaf ==
    [][(/\ pc = "api"
        /\ call'.op = "expand"
        /\ At(nodes, call'.arg).untried_actions = <<>>
        /\ At(nodes, call'.arg).children = <<>>)
       => (nodes' = nodes /\ call'.ret = Some(call'.arg))]_vars

\* expand has been called on such a node, not the root, in an arena of three
\* or more nodes
C8_Witness ==
    /\ call.op = "expand"
    /\ call.arg # root
    /\ call.ret = Some(call.arg)
    /\ At(nodes, call.arg).untried_actions = <<>>
    /\ At(nodes, call.arg).children = <<>>
    /\ Len(nodes) >= 3

\* C9: every board that contains a completed three-in-a-row of X has
\* get_winner() = Some(1) and is_terminal() = true; stated of the boards a
\* playout applies the two to, in a search that starts from an unfinished
\* game.
C9_XLineWins ==
    (/\ pc = "playout"
     /\ ~is_terminal(At(nodes, root).state)
     /\ HasLine(sim.board, "X"))
    => (get_winner(sim) = Some(1) /\ is_terminal(sim))

\* C10: in get_best_move on a fresh arena, whenever select is about to run
\* every node but the root has visits >= 1, and no UCT comparison ever
\* meets a NaN score.
C10_NoZeroVisitChild ==
    /\ pc = "select" =>
         \A k \in Indices(nodes) \ {root} : At(nodes, k).visits >= 1
    /\ fatal # "unwrap on None"

\* select is about to compare the scores of two or more children of the root
C10_Witness ==
    /\ pc = "select"
    /\ At(nodes, root).untried_actions = <<>>
    /\ Len(At(nodes, root).children) >= 2
    /\ i >= 4

\* C11: when the loop of get_best_move stops early because expand returned
\* the selected node, no node of the arena has a non-empty untried_actions.
\* (The early stop is the only way to reach the end of the loop with
\* expanded_node = selected_node after an iteration has started.)
C11_NothingLeftToExpand ==
    (pc = "best" /\ i >= 1 /\ expanded_node = selected_node)
    => \A k \in Indices(nodes) : At(nodes, k).untried_actions = <<>>

\* C12: in every reachable state and for every node, untried_actions and the
\* last_action values of the node's children are disjoint, no action occurs
\* twice among them, and together they are the legal moves of the node's
\* state (which never changes after the node's creation, so these are the
\* legal moves computed then).
C12_ActionsPartition ==
    \A k \in Indices(nodes) :
        LET untried == At(nodes, k).untried_actions
            \* the last_action values of the children, in their order
            tried == [c \in 1..Len(At(nodes, k).children) |->
                         At(nodes, At(nodes, k).children[c]).last_action[1]]
            all == untried \o tried
            Range(seq) == {seq[a] : a \in 1..Len(seq)}
        IN  /\ \A c \in 1..Len(At(nodes, k).children) :
                 /\ At(nodes, k).children[c] \in Indices(nodes)
                 /\ At(nodes, At(nodes, k).children[c]).last_action # None
            /\ Range(untried) \cap Range(tried) = {}
            /\ \A a, b \in 1..Len(all) : all[a] = all[b] => a = b
            /\ Range(all) = Range(get_legal_moves(At(nodes, k).state))

\* a node with both untried actions and children, and a node below the root
\* whose actions have all been tried
C12_Witness ==
    /\ \E k \in Indices(nodes) :
         /\ At(nodes, k).untried_actions # <<>>
         /\ At(nodes, k).children # <<>>
    /\ \E k \in Indices(nodes) \ {root} :
         /\ At(nodes, k).untried_actions = <<>>
         /\ At(nodes, k).children # <<>>

\* C13: backpropagate(n, r) adds 1 to visits and the same r to wins at
\* exactly the nodes on the parent chain from n up to and including the root,
\* once each, and leaves every other node and the fields state, parent,
\* children, untried_actions and last_action of every node unchanged.
C13_BackpropagateEffect ==
    [][(call.op = "simulate" /\ call'.op = "backpropagate") =>
        LET n == call'.arg
            r == call.ret[1]
            \* the nodes from k up to the root
            UpFrom[k \in Indices(nodes)] ==
                IF At(nodes, k).parent = None THEN {k}
                ELSE {k} \cup UpFrom[At(nodes, k).parent[1]]
        IN  /\ Len(nodes') = Len(nodes)
            /\ root \in UpFrom[n]
            /\ \A k \in Indices(nodes) :
                 /\ k \in UpFrom[n] =>
                      /\ At(nodes', k).visits = At(nodes, k).visits + 1
                      /\ At(nodes', k).wins = At(nodes, k).wins + r
                 /\ k \notin UpFrom[n] =>
                      /\ At(nodes', k).visits = At(nodes, k).visits
                      /\ At(nodes', k).wins = At(nodes, k).wins
                 /\ At(nodes', k).state = At(nodes, k).state
                 /\ At(nodes', k).parent = At(nodes, k).parent
                 /\ At(nodes', k).children = At(nodes, k).children
                 /\ At(nodes', k).untried_actions =
                        At(nodes, k).untried_actions
                 /\ At(nodes', k).last_action = At(nodes, k).last_action]_vars

\* backpropagate of a win or a loss has been called on a node two levels
\* below the root, in an arena with a node that is not on its parent chain
C13_Witness ==
    /\ call.op = "backpropagate"
    /\ call.ret \in {Some(0), Some(2)}
    /\ At(nodes, call.arg).parent \notin {None, Some(root)}
    /\ \E k \in Indices(nodes) \ {root} :
         /\ At(nodes, k).visits = 0
         /\ At(nodes, k).parent = Some(root)

\* C14: expand(n) on a node with non-empty untried_actions removes exactly
\* the last element a of n.untried_actions, appends exactly one node c at
\* index = previous arena size with state = n.state with a applied,
\* parent = n, last_action = a, wins = visits = 0, no children and
\* untried_actions = the legal moves of the new state, appends c at the end
\* of n.children, returns c, and changes nothing else.
C14_ExpandEffect ==
    [][(/\ pc = "api"
        /\ call'.op = "expand"
        /\ At(nodes, call'.arg).untried_actions # <<>>)
       => LET n == call'.arg
              before == At(nodes, n)
              after == At(nodes', n)
              a == before.untried_actions[Len(before.untried_actions)]
              c == Len(nodes)
          IN  /\ call'.ret = Some(c)
              /\ Len(nodes') = Len(nodes) + 1
              /\ after.untried_actions \o <<a>> = before.untried_actions
              /\ after.children = before.children \o <<c>>
              /\ after.state = before.state
              /\ after.parent = before.parent
              /\ after.last_action = before.last_action
              /\ after.wins = before.wins
              /\ after.visits = before.visits
              /\ At(nodes', c).state = make_move(before.state, a)
              /\ At(nodes', c).state.board[a] = Some(before.state.player)
              /\ At(nodes', c).parent = Some(n)
              /\ At(nodes', c).last_action = Some(a)
              /\ At(nodes', c).wins = 0
              /\ At(nodes', c).visits = 0
              /\ At(nodes', c).children = <<>>
              /\ At(nodes', c).untried_actions =
                     get_legal_moves(At(nodes', c).state)
              /\ \A k \in Indices(nodes) \ {n} :
                     At(nodes', k) = At(nodes, k)]_vars

\* expand has created a child of a visited node below the root, in an arena
\* where the root has both a child and an untried action
C14_Witness ==
    /\ call.op = "expand"
    /\ call.ret = Some(Len(nodes) - 1)
    /\ call.arg # root
    /\ At(nodes, call.arg).visits >= 1
    /\ At(nodes, root).untried_actions # <<>>

\* C15: within get_best_move, every call of expand on a node whose
\* untried_actions is empty is a call on a node that has no children, so the
\* max-UCT fallback of expand never returns a child there, and every
\* iteration either creates exactly one new node or ends the loop.
C15_NoFallbackChild ==
    [][pc = "expand" =>
        /\ At(nodes, selected_node).untried_actions = <<>> =>
               At(nodes, selected_node).children = <<>>
        /\ \/ /\ Len(nodes') = Len(nodes) + 1
              /\ expanded_node' = Len(nodes)
              /\ pc' = "simulate"
           \/ /\ nodes' = nodes
              /\ expanded_node' = selected_node
              /\ pc' = "best"]_vars

\* expand is about to be called on a node below the root that has neither
\* untried actions nor children
C15_Witness ==
    /\ pc = "expand"
    /\ selected_node # root
    /\ At(nodes, selected_node).untried_actions = <<>>
    /\ At(nodes, selected_node).children = <<>>

\* C16: simulate(n) plays on a clone of n's state; when the playout's final
\* state has get_winner() = Some(1) it returns 1.0, for Some(-1) 0.0 and for
\* Some(0) 0.5 (2, 0 and 1 in half units), for any other value it panics
\* with "Unexpected winner"; the arena is unchanged by every step of the call.
C16_SimulateReward ==
    [][/\ (pc = "api" /\ call'.op = "simulate") =>
            /\ sim' = At(nodes, call'.arg).state
            /\ nodes' = nodes
       /\ pc = "api_playout" =>
            /\ nodes' = nodes
            /\ call'.op = "simulate" /\ call'.arg = call.arg
            /\ pc' # "api_playout" =>
                 /\ is_terminal(sim)
                 /\ get_winner(sim) = Some(1) =>
                        pc' = "returned" /\ call'.ret = Some(2)
                 /\ get_winner(sim) = Some(-1) =>
                        pc' = "returned" /\ call'.ret = Some(0)
                 /\ get_winner(sim) = Some(0) =>
                        pc' = "returned" /\ call'.ret = Some(1)
                 /\ get_winner(sim) \notin {Some(1), Some(-1), Some(0)} =>
                        pc' = "panic" /\ fatal' = "Unexpected winner"]_vars

\* simulate on a node below the root has returned 1.0 after a playout of one
\* or more moves
C16_Witness ==
    /\ pc = "returned"
    /\ call.op = "simulate"
    /\ call.arg # root
    /\ call.ret = Some(2)
    /\ ~is_terminal(At(nodes, call.arg).state)

\* C17: get_best_move(iterations) on a tic-tac-toe position always terminates,
\* by returning or by panicking, and when it has, the loop body has run at
\* most `iterations` times (i never decreases) and was left because the
\* budget was exhausted or because expand returned the selected node.
C17_Terminates ==
    <>(/\ pc \in {"done", "panic"}
       /\ i <= iterations
       /\ i = iterations \/ expanded_node = selected_node)

\* get_best_move(2000) has returned after an early exit, having built a tree
\* of four or more nodes
C17_Witness ==
    /\ pc = "done"
    /\ iterations = 2000
    /\ i < iterations
    /\ Len(nodes) >= 4

\* C18: in every reachable state the arena is a tree rooted at index 0: the
\* root is the only node with parent = None and the only node with
\* last_action = None, every other node k has a parent p < k, occurs exactly
\* once in p.children and in no other node's children, and the root occurs in
\* no children; so every parent chain descends to the root.
C18_ArenaIsTree ==
    LET Occurrences(p, k) ==
            Cardinality({c \in 1..Len(At(nodes, p).children) :
                            At(nodes, p).children[c] = k})
    IN  /\ root \in Indices(nodes)
        /\ At(nodes, root).parent = None
        /\ At(nodes, root).last_action = None
        /\ \A p \in Indices(nodes) : Occurrences(p, root) = 0
        /\ \A k \in Indices(nodes) \ {root} :
             /\ At(nodes, k).parent # None
             /\ At(nodes, k).last_action # None
             /\ At(nodes, k).parent[1] \in Indices(nodes)
             /\ At(nodes, k).parent[1] < k
             /\ \A p \in Indices(nodes) :
                  Occurrences(p, k) = IF Some(p) = At(nodes, k).parent
                                      THEN 1 ELSE 0

\* an arena in which the root has two children and one of them has a child
C18_Witness ==
    /\ Len(At(nodes, root).children) >= 2
    /\ \E k \in Indices(nodes) : At(nodes, k).parent \notin {None, Some(root)}

\* C19: during get_best_move on a fresh arena, after every completed
\* iteration each non-root node's visits equal the number of nodes in the
\* subtree rooted at it (itself included) and the root's visits equal the
\* arena size minus 1; in particular a childless node below the root has
\* visits = 1.
C19_VisitsAreSubtreeSizes ==
    pc \in {"loop", "best", "done"} =>
        LET \* the number of nodes in the subtrees rooted at the nodes of cs
            RECURSIVE SizeOfAll(_)
            SizeOfAll(cs) ==
                IF cs = <<>> THEN 0
                ELSE 1 + SizeOfAll(At(nodes, Head(cs)).children)
                       + SizeOfAll(Tail(cs))
        IN  /\ At(nodes, root).visits = Len(nodes) - 1
            /\ \A k \in Indices(nodes) \ {root} :
                 /\ At(nodes, k).visits = SizeOfAll(<<k>>)
                 /\ At(nodes, k).children = <<>> => At(nodes, k).visits = 1

\* an iteration has completed on a tree with a node two levels below the root
\* and a node of three or more visits below the root
C19_Witness ==
    /\ pc = "loop"
    /\ \E k \in Indices(nodes) : At(nodes, k).parent \notin {None, Some(root)}
    /\ \E k \in Indices(nodes) \ {root} : At(nodes, k).visits >= 3

\* C20: in a tic-tac-toe search run by get_best_move from an unfinished
\* game, a node whose state satisfies is_terminal() never has a child:
\* expand never applies a move to a terminal position.
C20_NoChildOfTerminal ==
    ~is_terminal(At(nodes, root).state) =>
        \A k \in Indices(nodes) :
            is_terminal(At(nodes, k).state) => At(nodes, k).children = <<>>

====
